---- MODULE Spec2Model ----
(***************************************************************************)
(* fakehttpfs: an in-memory http.FileSystem made of file values and *dir   *)
(* pointers.  The model follows src/fakefs.go (the current revision,       *)
(* lines 201-422): dir.Open / dir.find resolve a path, dir.Readdir pages   *)
(* through d.files with the persistent d.position, file.Read / file.Seek   *)
(* pass through to one shared bytes.Reader, Close rewinds.                 *)
(*                                                                         *)
(* Strings are sequences of one-character strings, so that strings.SplitN  *)
(* is computed and not assumed.  A node is identified in the               *)
(* heap `tree` by its key; two references are the same object iff they are   *)
(* the same key.                                                           *)
(***************************************************************************)
EXTENDS Integers, Sequences, FiniteSets, TLC

VARIABLES
    tree,       \* the heap: node id -> [kind, name, files, content]
    path,       \* the path string the test scenario opens
    position,   \* dir.position of every *dir
    offset,     \* the read index of every file's bytes.Reader
    op,         \* the last call made: kind, receiver, arguments, cursor before
    res,        \* what the last call returned
    held        \* the node the first successful Open(path) on the root returned

vars == <<tree, path, position, offset, op, res, held>>

----------------------------------------------------------------------------
(* Bounds of the model. *)

MaxPathLen == 4     \* longest path string opened
MaxCount == 2       \* largest Readdir count
MaxRead == 2        \* largest Read buffer length
MaxSeek == 1        \* largest Seek offset argument, and how far past the end a Reader is moved
MaxPages == 4       \* consecutive Readdir calls counted one by one; later ones count as this many

----------------------------------------------------------------------------
(* Values. *)

Nil == "nil"                        \* the nil http.File / the nil error
ErrNotExist == "os.ErrNotExist"
EOF == "io.EOF"
ErrNotDir == "Not dir"
ErrNotRegular == "Not regular file"
ErrNegative == "bytes.Reader.Seek: negative position"
ErrWhence == "bytes.Reader.Seek: invalid whence"

Alphabet == {"/", ".", "a"}

Paths == UNION {[1..n -> Alphabet] : n \in 0..MaxPathLen}

Min(a, b) == IF a < b THEN a ELSE b

----------------------------------------------------------------------------
(* Construction: FileSystem, Dir, File and an externally supplied file.    *)

File(name, contents) == [kind |-> "file", name |-> name, files |-> <<>>, content |-> contents]

Dir(name, files) == [kind |-> "dir", name |-> name, files |-> files, content |-> <<>>]

FileSystem(files) == [kind |-> "dir", name |-> <<>>, files |-> files, content |-> <<>>]

\* An http.File that is not built by File or Dir (a real *os.File in
\* TestOtherFiles): it answers Stat with its base name; it is not a *dir.
Other(name) == [kind |-> "other", name |-> name, files |-> <<>>, content |-> <<>>]

\* An http.File whose Stat returns an error (an *os.File that was closed
\* before it was passed to FileSystem or Dir); it is not a *dir.
Closed(name) == [kind |-> "closed", name |-> name, files |-> <<>>, content |-> <<>>]

Root == "root"

\* The shape of testFS: a directory holding a file and nested directories
\* of one repeated name, and a file next to it at the top.
\*   FileSystem(Dir("a", File("aa", "xy"), Dir("a")), File("aa", ""))
TestFS ==
    ("root" :> FileSystem(<<"foo", "hello">>)) @@
    ("foo" :> Dir(<<"a">>, <<"bar", "baz">>)) @@
    ("bar" :> File(<<"a", "a">>, <<"x", "y">>)) @@
    ("baz" :> Dir(<<"a">>, <<>>)) @@
    ("hello" :> File(<<"a", "a">>, <<>>))

\* The shape of testDir and of TestOtherFiles: three children listed in
\* pages, one of them an externally supplied file.
\*   FileSystem(Dir("a", File("a", "x")), Other("aa"), Dir("a."))
TestDir ==
    ("root" :> FileSystem(<<"one", "tmp", "three">>)) @@
    ("one" :> Dir(<<"a">>, <<"four">>)) @@
    ("tmp" :> Other(<<"a", "a">>)) @@
    ("three" :> Dir(<<"a", ".">>, <<>>)) @@
    ("four" :> File(<<"a">>, <<"x">>))

Trees == {TestFS, TestDir}

\* A file system whose root holds two children named "a", a file and then a
\* directory, and two named "aa", a directory and then a file.
\*   FileSystem(File("a", "x"), Dir("a", File("a", "y")),
\*              Dir("aa", File("a", "xy")), File("aa", ""))
DupFS ==
    ("root" :> FileSystem(<<"file1", "dir1", "dir2", "file2">>)) @@
    ("file1" :> File(<<"a">>, <<"x">>)) @@
    ("dir1" :> Dir(<<"a">>, <<"below1">>)) @@
    ("below1" :> File(<<"a">>, <<"y">>)) @@
    ("dir2" :> Dir(<<"a", "a">>, <<"below2">>)) @@
    ("below2" :> File(<<"a">>, <<"x", "y">>)) @@
    ("file2" :> File(<<"a", "a">>, <<>>))

\* FileSystem(...) over a directory, a file and a file whose Stat fails, the
\* three in the given order.
\*   Dir("a", File("a", "x")), File("aa", "xy"), Closed("a.")
FailFS(files) ==
    ("root" :> FileSystem(files)) @@
    ("one" :> Dir(<<"a">>, <<"four">>)) @@
    ("two" :> File(<<"a", "a">>, <<"x", "y">>)) @@
    ("bad" :> Closed(<<"a", ".">>)) @@
    ("four" :> File(<<"a">>, <<"x">>))

\* The failing child first, in the middle and last; and testDir, where
\* every Stat succeeds.
FailTrees ==
    { FailFS(<<"bad", "one", "two">>), FailFS(<<"one", "bad", "two">>),
      FailFS(<<"one", "two", "bad">>), TestDir }

Nodes == DOMAIN tree
Dirs == {n \in Nodes : tree[n].kind = "dir"}
Files == {n \in Nodes : tree[n].kind = "file"}

----------------------------------------------------------------------------
(* Stat and the os.FileInfo accessors.  Stat returns the node itself.      *)

\* The error the Stat of node n returns, one value per node.
StatErr(n) == "stat " \o n \o ": file already closed"

Stat(n) ==
    IF tree[n].kind = "closed" THEN [info |-> Nil, err |-> StatErr(n)]
    ELSE [info |-> n, err |-> Nil]

Name(n) == tree[n].name

IsDir(n) == tree[n].kind = "dir"

----------------------------------------------------------------------------
(* Path resolution. *)

HasSep(s) == \E i \in 1..Len(s) : s[i] = "/"

FirstSep(s) == CHOOSE i \in 1..Len(s) : s[i] = "/" /\ \A j \in 1..(i - 1) : s[j] # "/"

\* strings.SplitN(name, "/", 2)
SplitN2(s) ==
    IF HasSep(s)
    THEN <<SubSeq(s, 1, FirstSep(s) - 1), SubSeq(s, FirstSep(s) + 1, Len(s))>>
    ELSE <<s>>

\* The loop of find that keeps scanning after a match and returns the last
\* child of that name.
RECURSIVE findFrom_last(_, _, _)
findFrom_last(d, name, i) ==
    IF i > Len(tree[d].files) THEN [file |-> Nil, err |-> ErrNotExist]
    ELSE LET f == tree[d].files[i]
             st == Stat(f)
             later == findFrom_last(d, name, i + 1)
         IN IF st.err # Nil THEN [file |-> Nil, err |-> st.err]
            ELSE IF Name(st.info) = name /\ later.file = Nil THEN [file |-> f, err |-> Nil]
            ELSE later

\* The loop of find over d.files, from child i on.
RECURSIVE findFrom(_, _, _)
findFrom(d, name, i) ==
    IF i > Len(tree[d].files) THEN [file |-> Nil, err |-> ErrNotExist]
    ELSE LET f == tree[d].files[i]
             st == Stat(f)
         IN IF st.err # Nil THEN [file |-> Nil, err |-> st.err]
            ELSE IF Name(st.info) = name THEN [file |-> f, err |-> Nil]
            ELSE findFrom(d, name, i + 1)

\* find that resumes the scan at d.position, as Readdir does.
find_fromPosition(d, name) ==
    IF name = <<>> \/ name = <<".">>
    THEN [file |-> d, err |-> Nil]
    ELSE findFrom(d, name, position[d] + 1)

find(d, name) ==
    IF name = <<>> \/ name = <<".">>
    THEN [file |-> d, err |-> Nil]
    ELSE findFrom(d, name, 1)

\* Open that looks an empty first segment up among the children.
RECURSIVE dir_Open_noEmpty(_, _)
dir_Open_noEmpty(d, name) ==
    LET parts == SplitN2(name)
        found == IF parts[1] = <<>> THEN findFrom(d, parts[1], 1) ELSE find(d, parts[1])
    IN IF Len(parts) = 1 THEN found
       ELSE IF found.file # Nil /\ tree[found.file].kind = "dir"
            THEN dir_Open_noEmpty(found.file, parts[2])
            ELSE [file |-> Nil, err |-> ErrNotExist]

\* Open that looks a "." first segment up among the children.
RECURSIVE dir_Open_noDot(_, _)
dir_Open_noDot(d, name) ==
    LET parts == SplitN2(name)
        found == IF parts[1] = <<".">> THEN findFrom(d, parts[1], 1) ELSE find(d, parts[1])
    IN IF Len(parts) = 1 THEN found
       ELSE IF found.file # Nil /\ tree[found.file].kind = "dir"
            THEN dir_Open_noDot(found.file, parts[2])
            ELSE [file |-> Nil, err |-> ErrNotExist]

\* Open that returns what it found when it cannot descend into it.
RECURSIVE dir_Open_lenient(_, _)
dir_Open_lenient(d, name) ==
    LET parts == SplitN2(name)
        found == find(d, parts[1])
    IN IF Len(parts) = 1 THEN found
       ELSE IF found.file # Nil /\ tree[found.file].kind = "dir"
            THEN dir_Open_lenient(found.file, parts[2])
            ELSE found

RECURSIVE dir_Open(_, _)
dir_Open(d, name) ==
    LET parts == SplitN2(name)
        found == find(d, parts[1])
    IN IF Len(parts) = 1 THEN found
       ELSE IF found.file # Nil /\ tree[found.file].kind = "dir"
            THEN dir_Open(found.file, parts[2])
            ELSE [file |-> Nil, err |-> ErrNotExist]

----------------------------------------------------------------------------
(* Directory listing. *)

Panic == "panic"    \* the call aborts with a runtime panic

\* The loop over d.files that stops one child short.
RECURSIVE statAll_short(_, _, _)
statAll_short(d, i, r) ==
    IF i > Len(tree[d].files) - 1 THEN [r |-> r, err |-> Nil]
    ELSE LET st == Stat(tree[d].files[i])
         IN IF st.err # Nil THEN [r |-> r, err |-> st.err]
            ELSE statAll_short(d, i + 1, Append(r, st.info))

\* The loop that returns r[0 : i-1] when a Stat fails: one entry fewer than
\* it collected, and a slice out of range when it collected none.
RECURSIVE statAll_dropLast(_, _, _)
statAll_dropLast(d, i, r) ==
    IF i > Len(tree[d].files) THEN [r |-> r, err |-> Nil]
    ELSE LET st == Stat(tree[d].files[i])
         IN IF st.err # Nil
            THEN IF r = <<>> THEN [r |-> <<>>, err |-> Panic]
                 ELSE [r |-> SubSeq(r, 1, Len(r) - 1), err |-> st.err]
            ELSE statAll_dropLast(d, i + 1, Append(r, st.info))

\* count == 0: Stat every child from the start, d.position untouched.
RECURSIVE statAll(_, _, _)
statAll(d, i, r) ==
    IF i > Len(tree[d].files) THEN [r |-> r, err |-> Nil]
    ELSE LET st == Stat(tree[d].files[i])
         IN IF st.err # Nil THEN [r |-> r, err |-> st.err]
            ELSE statAll(d, i + 1, Append(r, st.info))

\* The loop that also reports io.EOF when the page it filled reaches the end.
RECURSIVE readPage_eager(_, _, _, _, _)
readPage_eager(d, count, i, pos, r) ==
    IF i >= count
    THEN [r |-> r, err |-> IF pos > Len(tree[d].files) - 1 THEN EOF ELSE Nil, position |-> pos]
    ELSE IF pos > Len(tree[d].files) - 1 THEN [r |-> r, err |-> EOF, position |-> pos]
    ELSE LET st == Stat(tree[d].files[pos + 1])
         IN IF st.err # Nil THEN [r |-> r, err |-> st.err, position |-> pos]
            ELSE readPage_eager(d, count, i + 1, pos + 1, Append(r, st.info))

\* The loop that starts over when it finds d.position at the end.
RECURSIVE readPage_wrap(_, _, _, _, _)
readPage_wrap(d, count, i, pos, r) ==
    IF i >= count THEN [r |-> r, err |-> Nil, position |-> pos]
    ELSE IF pos > Len(tree[d].files) - 1 THEN [r |-> r, err |-> EOF, position |-> 0]
    ELSE LET st == Stat(tree[d].files[pos + 1])
         IN IF st.err # Nil THEN [r |-> r, err |-> st.err, position |-> pos]
            ELSE readPage_wrap(d, count, i + 1, pos + 1, Append(r, st.info))

\* The loop that steps d.position past the end when it reports io.EOF.
RECURSIVE readPage_overrun(_, _, _, _, _)
readPage_overrun(d, count, i, pos, r) ==
    IF i >= count THEN [r |-> r, err |-> Nil, position |-> pos]
    ELSE IF pos > Len(tree[d].files) - 1 THEN [r |-> r, err |-> EOF, position |-> pos + 1]
    ELSE LET st == Stat(tree[d].files[pos + 1])
         IN IF st.err # Nil THEN [r |-> r, err |-> st.err, position |-> pos]
            ELSE readPage_overrun(d, count, i + 1, pos + 1, Append(r, st.info))

\* The loop that moves d.position on before it looks at the Stat error.
RECURSIVE readPage_advanceFirst(_, _, _, _, _)
readPage_advanceFirst(d, count, i, pos, r) ==
    IF i >= count THEN [r |-> r, err |-> Nil, position |-> pos]
    ELSE IF pos > Len(tree[d].files) - 1 THEN [r |-> r, err |-> EOF, position |-> pos]
    ELSE LET st == Stat(tree[d].files[pos + 1])
         IN IF st.err # Nil THEN [r |-> r, err |-> st.err, position |-> pos + 1]
            ELSE readPage_advanceFirst(d, count, i + 1, pos + 1, Append(r, st.info))

\* count > 0: the loop body for iteration i with d.position = pos.
RECURSIVE readPage(_, _, _, _, _)
readPage(d, count, i, pos, r) ==
    IF i >= count THEN [r |-> r, err |-> Nil, position |-> pos]
    ELSE IF pos > Len(tree[d].files) - 1 THEN [r |-> r, err |-> EOF, position |-> pos]
    ELSE LET st == Stat(tree[d].files[pos + 1])
         IN IF st.err # Nil THEN [r |-> r, err |-> st.err, position |-> pos]
            ELSE readPage(d, count, i + 1, pos + 1, Append(r, st.info))

\* Readdir that pages from the first child on every call, as it would if
\* each http.File an Open returns had a position of its own.
dir_Readdir_restart(d, count, pos) ==
    IF count = 0
    THEN [r |-> statAll(d, 1, <<>>).r, err |-> statAll(d, 1, <<>>).err, position |-> pos]
    ELSE IF count < 0 THEN [r |-> <<>>, err |-> Panic, position |-> pos]
    ELSE readPage(d, count, 0, 0, <<>>)

\* Readdir whose count == 0 branch lists from d.position on.
dir_Readdir_fromPosition(d, count, pos) ==
    IF count = 0
    THEN [r |-> statAll(d, pos + 1, <<>>).r, err |-> statAll(d, pos + 1, <<>>).err,
          position |-> pos]
    ELSE IF count < 0 THEN [r |-> <<>>, err |-> Panic, position |-> pos]
    ELSE readPage(d, count, 0, pos, <<>>)

\* (*dir).Readdir: what it returns and where it leaves d.position.
\* make([]os.FileInfo, count) panics for a negative count.
dir_Readdir(d, count, pos) ==
    IF count = 0
    THEN [r |-> statAll(d, 1, <<>>).r, err |-> statAll(d, 1, <<>>).err, position |-> pos]
    ELSE IF count < 0 THEN [r |-> <<>>, err |-> Panic, position |-> pos]
    ELSE readPage(d, count, 0, pos, <<>>)

\* Readdir on a file answering as if the name were not found.
file_Readdir_notExist(f, count) == [r |-> <<>>, err |-> ErrNotExist]

file_Readdir(f, count) == [r |-> <<>>, err |-> ErrNotDir]

\* Close that leaves d.position where it is.
dir_Close_keep(d) == position[d]

dir_Close(d) == 0

----------------------------------------------------------------------------
(* Leaf content: one bytes.Reader per file, shared by every copy of it.    *)

ReaderLen(f, off) == IF off >= Len(tree[f].content) THEN 0 ELSE Len(tree[f].content) - off

\* Read that copies from the start of the content, not from the read index.
file_Read_stale(f, n, off) ==
    IF off >= Len(tree[f].content)
    THEN [n |-> 0, data |-> <<>>, err |-> EOF, offset |-> off]
    ELSE LET k == Min(n, Len(tree[f].content) - off)
         IN [n |-> k, data |-> SubSeq(tree[f].content, 1, k),
             err |-> Nil, offset |-> off + k]

\* file.Read with a buffer of length n.
file_Read(f, n, off) ==
    IF off >= Len(tree[f].content)
    THEN [n |-> 0, data |-> <<>>, err |-> EOF, offset |-> off]
    ELSE LET k == Min(n, Len(tree[f].content) - off)
         IN [n |-> k, data |-> SubSeq(tree[f].content, off + 1, off + k),
             err |-> Nil, offset |-> off + k]

\* file.Seek
file_Seek(f, o, whence, off) ==
    LET abs == CASE whence = 0 -> o
                 [] whence = 1 -> off + o
                 [] whence = 2 -> Len(tree[f].content) + o
                 [] OTHER -> 0
    IN IF whence \notin {0, 1, 2} THEN [n |-> 0, err |-> ErrWhence, offset |-> off]
       ELSE IF abs < 0 THEN [n |-> 0, err |-> ErrNegative, offset |-> off]
       ELSE [n |-> abs, err |-> Nil, offset |-> abs]

\* Close that returns nil without seeking.
file_Close_noRewind(f, off) == [err |-> Nil, offset |-> off]

\* file.Close: Seek(0, 0), panic if it fails.
file_Close(f, off) ==
    LET s == file_Seek(f, 0, 0, off)
    IN IF s.err # Nil THEN [err |-> Panic, offset |-> s.offset]
       ELSE [err |-> Nil, offset |-> s.offset]

\* Size that reports the length the constructor stored in f.size.
file_Size_total(f, off) == Len(tree[f].content)

\* file.Size: Reader.Len(), the bytes of the content not yet read.
file_Size(f, off) == ReaderLen(f, off)

dir_Size(d) == 0

dir_Read(d, n) == [n |-> 0, data |-> <<>>, err |-> ErrNotRegular]

dir_Seek(d, o, whence) == [n |-> 0, err |-> ErrNotRegular]

\* bytes.Buffer.ReadFrom(file), as TestFilesystem reads a file: Read into a
\* buffer of MaxRead bytes until it returns an error; io.EOF is not reported.
RECURSIVE readFrom(_, _, _)
readFrom(f, off, data) ==
    LET rd == file_Read(f, MaxRead, off)
    IN IF rd.err = EOF THEN [data |-> data, err |-> Nil, offset |-> rd.offset]
       ELSE IF rd.err # Nil THEN [data |-> data, err |-> rd.err, offset |-> rd.offset]
       ELSE readFrom(f, rd.offset, data \o rd.data)

----------------------------------------------------------------------------
(* The calls a test makes.  Every call records itself in op (with the      *)
(* receiver's cursor before the call) and its return values in res.        *)

NoOp == [kind |-> "new", node |-> Nil, name |-> <<>>, count |-> 0, whence |-> 0,
         before |-> 0, fresh |-> FALSE, page |-> 0, pages |-> <<>>,
         closedFrom |-> -1, stat |-> [info |-> Nil, size |-> 0],
         caller |-> Nil, run |-> [node |-> Nil, seen |-> <<>>, callers |-> {}]]

\* A call: the os.FileInfo the test got from its last Stat stays in its
\* hands, and so does what the callers sharing a directory have listed.
Call == [NoOp EXCEPT !.stat = op.stat, !.run = op.run]

\* Two callers of one file system.
Callers == {"a", "b"}

\* The http.File a caller lists: caller a keeps the value its Open(path)
\* returned, caller b opens the same path again for each call.
Ref(c) == IF c = "a" THEN held ELSE dir_Open(Root, path).file

\* What the callers have been given, in the order of their calls, since the
\* cursor of n last stood at 0, and who took part.
RunAfter(n, c, r) ==
    IF position[n] = 0 THEN [node |-> n, seen |-> r, callers |-> {c}]
    ELSE IF op.run.node = n
         THEN [node |-> n, seen |-> op.run.seen \o r, callers |-> op.run.callers \cup {c}]
         ELSE [node |-> n, seen |-> <<>>, callers |-> {}]

NoRes == [file |-> Nil, err |-> Nil, r |-> <<>>, n |-> 0, data |-> <<>>]

\* Paths the tests open, in this alphabet: the root itself, a file at the
\* top, a file in a directory and a nested directory (TestSelf,
\* TestFilesystem, TestDirs).
TestPaths ==
    { <<>>, <<"a", "a">>, <<"a", "/", "a", "a">>, <<"a", "/", "a">> }

Prefixes == { <<>>, <<"/">>, <<".", "/">>, <<".", "/", "/">> }

\* Whether the call before this one was an Open that returned node n.
JustOpened(n) == op.kind = "Open" /\ res.file = n

\* The cursor the call before this one found, when that call was n.Close();
\* -1 when it was another call.
JustClosedFrom(n) == IF op.kind = "Close" /\ op.node = n THEN op.before ELSE -1

\* Whether n.Readdir(count) continues a run of Readdir(count) calls on n that
\* started with d.position = 0 and had no other call in between.
Continues(n, count) ==
    op.kind = "Readdir" /\ op.node = n /\ op.count = count /\ op.page >= 1

\* The number of this call in such a run (0: not in a run), and the pages the
\* run has returned so far, concatenated.
PageNo(n, count) ==
    IF count <= 0 THEN 0
    ELSE IF Continues(n, count) THEN Min(op.page + 1, MaxPages)
    ELSE IF position[n] = 0 THEN 1
    ELSE 0

PagesSoFar(n, count, r) ==
    IF count <= 0 THEN <<>>
    ELSE IF Continues(n, count) THEN op.pages \o r
    ELSE IF position[n] = 0 THEN r
    ELSE <<>>

Init ==
    /\ tree \in Trees
    /\ path \in TestPaths
    /\ position = [d \in {n \in DOMAIN tree : tree[n].kind = "dir"} |-> 0]
    /\ offset = [f \in {n \in DOMAIN tree : tree[n].kind = "file"} |-> 0]
    /\ op = NoOp
    /\ res = NoRes
    /\ held = Nil

InitOpen ==
    /\ tree \in Trees
    /\ path \in Paths
    /\ position = [d \in {n \in DOMAIN tree : tree[n].kind = "dir"} |-> 0]
    /\ offset = [f \in {n \in DOMAIN tree : tree[n].kind = "file"} |-> 0]
    /\ op = NoOp
    /\ res = NoRes
    /\ held = Nil

\* Open that hands out what it found rewound, as opening a file on disk
\* gives a descriptor at offset 0.
Open_rewound(d, name) ==
    LET out == dir_Open(d, name)
    IN /\ op' = [Call EXCEPT !.kind = "Open", !.node = d, !.name = name]
       /\ res' = [NoRes EXCEPT !.file = out.file, !.err = out.err]
       /\ held' = IF held = Nil /\ d = Root /\ name = path THEN out.file ELSE held
       /\ position' = [n \in DOMAIN position |-> IF n = out.file THEN 0 ELSE position[n]]
       /\ offset' = [n \in DOMAIN offset |-> IF n = out.file THEN 0 ELSE offset[n]]
       /\ UNCHANGED <<tree, path>>

\* d.Open(name)
Open(d, name) ==
    LET out == dir_Open(d, name)
    IN /\ op' = [Call EXCEPT !.kind = "Open", !.node = d, !.name = name]
       /\ res' = [NoRes EXCEPT !.file = out.file, !.err = out.err]
       /\ held' = IF held = Nil /\ d = Root /\ name = path THEN out.file ELSE held
       /\ UNCHANGED <<tree, path, position, offset>>

\* n.Readdir(count)
Readdir(n, count) ==
    /\ IF IsDir(n)
       THEN LET out == dir_Readdir(n, count, position[n])
            IN /\ op' = [Call EXCEPT !.kind = "Readdir", !.node = n, !.count = count,
                                     !.before = position[n],
                                     !.page = PageNo(n, count),
                                     !.pages = PagesSoFar(n, count, out.r),
                                     !.closedFrom = JustClosedFrom(n)]
               /\ res' = [NoRes EXCEPT !.r = out.r, !.err = out.err]
               /\ position' = [position EXCEPT ![n] = out.position]
       ELSE LET out == file_Readdir(n, count)
            IN /\ op' = [Call EXCEPT !.kind = "Readdir", !.node = n, !.count = count,
                                     !.before = offset[n]]
               /\ res' = [NoRes EXCEPT !.r = out.r, !.err = out.err]
               /\ position' = position
    /\ UNCHANGED <<tree, path, offset, held>>

\* Caller c calls Readdir(count) on its reference to the directory at path.
ListAs(c, count) ==
    /\ held # Nil
    /\ Ref(c) \in Dirs
    /\ LET n == Ref(c)
           out == dir_Readdir(n, count, position[n])
       IN /\ op' = [Call EXCEPT !.kind = "Readdir", !.node = n, !.count = count,
                                !.before = position[n],
                                !.closedFrom = JustClosedFrom(n),
                                !.caller = c,
                                !.run = RunAfter(n, c, out.r)]
          /\ res' = [NoRes EXCEPT !.r = out.r, !.err = out.err]
          /\ position' = [position EXCEPT ![n] = out.position]
    /\ UNCHANGED <<tree, path, offset, held>>

\* n.Read(b) with len(b) = len
Read(n, len) ==
    /\ IF IsDir(n)
       THEN LET out == dir_Read(n, len)
            IN /\ op' = [Call EXCEPT !.kind = "Read", !.node = n, !.count = len,
                                     !.before = position[n]]
               /\ res' = [NoRes EXCEPT !.n = out.n, !.data = out.data, !.err = out.err]
               /\ offset' = offset
       ELSE LET out == file_Read(n, len, offset[n])
            IN /\ op' = [Call EXCEPT !.kind = "Read", !.node = n, !.count = len,
                                     !.before = offset[n]]
               /\ res' = [NoRes EXCEPT !.n = out.n, !.data = out.data, !.err = out.err]
               /\ offset' = [offset EXCEPT ![n] = out.offset]
    /\ UNCHANGED <<tree, path, position, held>>

\* b.ReadFrom(n): read n to end-of-data
ReadFrom(n) ==
    /\ LET out == readFrom(n, offset[n], <<>>)
       IN /\ op' = [Call EXCEPT !.kind = "ReadFrom", !.node = n, !.before = offset[n],
                                !.fresh = JustOpened(n),
                                !.closedFrom = JustClosedFrom(n)]
          /\ res' = [NoRes EXCEPT !.data = out.data, !.n = Len(out.data), !.err = out.err]
          /\ offset' = [offset EXCEPT ![n] = out.offset]
    /\ UNCHANGED <<tree, path, position, held>>

\* n.Seek(o, whence)
Seek(n, o, whence) ==
    /\ IF IsDir(n)
       THEN LET out == dir_Seek(n, o, whence)
            IN /\ op' = [Call EXCEPT !.kind = "Seek", !.node = n, !.count = o,
                                     !.whence = whence, !.before = position[n]]
               /\ res' = [NoRes EXCEPT !.n = out.n, !.err = out.err]
               /\ offset' = offset
       ELSE LET out == file_Seek(n, o, whence, offset[n])
            IN /\ out.offset <= Len(tree[n].content) + MaxSeek
               /\ op' = [Call EXCEPT !.kind = "Seek", !.node = n, !.count = o,
                                     !.whence = whence, !.before = offset[n]]
               /\ res' = [NoRes EXCEPT !.n = out.n, !.err = out.err]
               /\ offset' = [offset EXCEPT ![n] = out.offset]
    /\ UNCHANGED <<tree, path, position, held>>

\* n.Close()
Close(n) ==
    /\ IF IsDir(n)
       THEN /\ op' = [Call EXCEPT !.kind = "Close", !.node = n, !.before = position[n],
                                   !.closedFrom = JustClosedFrom(n)]
            /\ res' = NoRes
            /\ position' = [position EXCEPT ![n] = dir_Close(n)]
            /\ offset' = offset
       ELSE LET out == file_Close(n, offset[n])
            IN /\ op' = [Call EXCEPT !.kind = "Close", !.node = n, !.before = offset[n],
                                     !.closedFrom = JustClosedFrom(n)]
               /\ res' = [NoRes EXCEPT !.err = out.err]
               /\ offset' = [offset EXCEPT ![n] = out.offset]
               /\ position' = position
    /\ UNCHANGED <<tree, path, held>>

\* n.Stat(): the os.FileInfo of a file or directory is the node itself; the
\* test keeps it, and op.stat.size notes the size it had at this moment.
CallStat(n) ==
    /\ op' = [Call EXCEPT !.kind = "Stat", !.node = n,
                          !.before = IF IsDir(n) THEN position[n] ELSE offset[n],
                          !.stat = [info |-> Stat(n).info,
                                    size |-> IF IsDir(n) THEN dir_Size(n)
                                             ELSE file_Size(n, offset[n])]]
    /\ res' = [NoRes EXCEPT !.file = Stat(n).info, !.err = Stat(n).err]
    /\ UNCHANGED <<tree, path, position, offset, held>>

\* info.Size() on the os.FileInfo the last Stat returned.
Size(info) ==
    /\ op.stat.info = info
    /\ op' = [Call EXCEPT !.kind = "Size", !.node = info,
                          !.before = IF IsDir(info) THEN position[info] ELSE offset[info],
                          !.closedFrom = JustClosedFrom(info)]
    /\ res' = [NoRes EXCEPT !.n = IF IsDir(info) THEN dir_Size(info)
                                  ELSE file_Size(info, offset[info])]
    /\ UNCHANGED <<tree, path, position, offset, held>>

\* The test opens its path on the root or on any directory it holds, and
\* calls the http.File methods on any node it holds.  The methods of the
\* wrong kind of node ignore their arguments, so one argument stands for all.
Next ==
    \/ \E d \in Dirs : Open(d, path)
    \/ \E n \in Dirs, count \in (-1)..MaxCount : Readdir(n, count)
    \/ \E n \in Files : Readdir(n, MaxCount)
    \/ \E n \in Files, len \in 0..MaxRead : Read(n, len)
    \/ \E n \in Dirs : Read(n, MaxRead)
    \/ \E n \in Files : ReadFrom(n)
    \/ \E n \in Files, o \in (-1)..MaxSeek, whence \in 0..3 : Seek(n, o, whence)
    \/ \E n \in Dirs : Seek(n, 0, 0)
    \/ \E n \in Dirs \cup Files : Close(n)

Spec == Init /\ [][Next]_vars

\* Path resolution over every path string, bare and behind each leading
\* prefix, while listing and closing move the directories' cursors.
NextOpen ==
    \/ \E d \in Dirs, prefix \in Prefixes : Open(d, prefix \o path)
    \/ \E n \in Dirs : Readdir(n, 1)
    \/ \E n \in Dirs : Close(n)

SpecOpen == InitOpen /\ [][NextOpen]_vars

\* Every method called on the wrong kind of node with every argument, while
\* calls on the right kind move the cursors.
NextKind ==
    \/ \E n \in Files, count \in (-1)..MaxCount : Readdir(n, count)
    \/ \E n \in Dirs, len \in 0..MaxRead : Read(n, len)
    \/ \E n \in Dirs, o \in (-1)..MaxSeek, whence \in 0..3 : Seek(n, o, whence)
    \/ \E n \in Dirs, count \in 1..MaxCount : Readdir(n, count)
    \/ \E n \in Files, len \in 1..MaxRead : Read(n, len)
    \/ \E n \in Dirs \cup Files : Close(n)

SpecKind == Init /\ [][NextKind]_vars

\* Stat and Size of files and directories between the reads, seeks and
\* closes of the files.
NextLeaf ==
    \/ \E n \in Dirs \cup Files : CallStat(n)
    \/ \E n \in Dirs \cup Files : Size(n)
    \/ \E n \in Files, len \in 0..MaxRead : Read(n, len)
    \/ \E n \in Files, o \in (-1)..MaxSeek, whence \in 0..2 : Seek(n, o, whence)
    \/ \E n \in Files : Close(n)

SpecLeaf == Init /\ [][NextLeaf]_vars

\* Two callers page through the directory both opened, in any order and
\* with any page sizes; a Close starts the listing over.
NextShare ==
    \/ Open(Root, path)
    \/ \E c \in Callers, count \in 1..MaxCount : ListAs(c, count)
    \/ held \in Dirs /\ Close(held)

SpecShare == Init /\ [][NextShare]_vars

\* Each of the five operations on each node, of its kind or not, with one
\* argument that moves the cursor by one.
NextFrame ==
    \/ \E d \in Dirs : Open(d, path)
    \/ \E n \in Dirs \cup Files, count \in 0..1 : Readdir(n, count)
    \/ \E n \in Dirs \cup Files : Read(n, 1)
    \/ \E n \in Dirs \cup Files : Seek(n, 1, 1)
    \/ \E n \in Dirs \cup Files : Close(n)

SpecFrame == Init /\ [][NextFrame]_vars

InitDup ==
    /\ tree = DupFS
    /\ path \in Paths
    /\ position = [d \in {n \in DOMAIN tree : tree[n].kind = "dir"} |-> 0]
    /\ offset = [f \in {n \in DOMAIN tree : tree[n].kind = "file"} |-> 0]
    /\ op = NoOp
    /\ res = NoRes
    /\ held = Nil

\* Path resolution over every path string in a tree with repeated names,
\* from each of its directories, while the root is paged through and closed.
NextDup ==
    \/ \E d \in Dirs : Open(d, path)
    \/ Readdir(Root, MaxCount)
    \/ Close(Root)

SpecDup == InitDup /\ [][NextDup]_vars

InitFail ==
    /\ tree \in FailTrees
    /\ path \in TestPaths
    /\ position = [d \in {n \in DOMAIN tree : tree[n].kind = "dir"} |-> 0]
    /\ offset = [f \in {n \in DOMAIN tree : tree[n].kind = "file"} |-> 0]
    /\ op = NoOp
    /\ res = NoRes
    /\ held = Nil

\* Listing, in one call and in pages, and path resolution over directories
\* one of whose children cannot be Stat-ed.
NextFail ==
    \/ \E d \in Dirs : Open(d, path)
    \/ \E n \in Dirs, count \in 0..MaxCount : Readdir(n, count)
    \/ \E n \in Dirs : Close(n)

SpecFail == InitFail /\ [][NextFail]_vars

----------------------------------------------------------------------------
(* Vocabulary of the properties. *)

Children(d) == tree[d].files

NumChildren(d) == Len(tree[d].files)

\* ceil(n / k)
CeilDiv(n, k) == (n + k - 1) \div k

\* The part of s after its first k elements.
Suffix(s, k) == IF k >= Len(s) THEN <<>> ELSE SubSeq(s, k + 1, Len(s))

\* The part of s from element lo to element hi, cut to what s has.
Slice(s, lo, hi) == IF lo > Min(hi, Len(s)) THEN <<>> ELSE SubSeq(s, lo, Min(hi, Len(s)))

Listed == op.kind = "Readdir" /\ op.node \in Dirs

\* Whether the Stat of node n fails.
StatFails(n) == tree[n].kind = "closed"

\* The index (from 1) of the first child of d at or after index lo whose Stat
\* fails, 0 when there is none.
FirstFailing(d, lo) ==
    IF \E j \in lo..NumChildren(d) : StatFails(Children(d)[j])
    THEN CHOOSE j \in lo..NumChildren(d) :
             /\ StatFails(Children(d)[j])
             /\ \A k \in lo..(j - 1) : ~StatFails(Children(d)[k])
    ELSE 0

Paged == Listed /\ op.count > 0

\* The last call was a listing of a Leaf, or a read or seek on a Container.
WrongKindCall ==
    \/ op.kind = "Readdir" /\ op.node \in Files
    \/ op.kind \in {"Read", "Seek"} /\ op.node \in Dirs

Opened == op.kind = "Open"

NotFound == res.file = Nil /\ res.err = ErrNotExist

\* The path cut at every separator.
RECURSIVE Segments(_)
Segments(s) ==
    IF HasSep(s)
    THEN <<SubSeq(s, 1, FirstSep(s) - 1)>> \o Segments(SubSeq(s, FirstSep(s) + 1, Len(s)))
    ELSE <<s>>

SelfSegment(seg) == seg = <<>> \/ seg = <<".">>

HasChild(d, seg) == \E i \in 1..NumChildren(d) : Name(Children(d)[i]) = seg

\* The first child of d with that name.
Child(d, seg) ==
    Children(d)[CHOOSE i \in 1..NumChildren(d) :
                    /\ Name(Children(d)[i]) = seg
                    /\ \A j \in 1..(i - 1) : Name(Children(d)[j]) # seg]

\* The Container reached from d before segment i is looked up, Nil if the
\* segments before it do not lead to a Container.
RECURSIVE Reached(_, _, _)
Reached(d, segs, i) ==
    IF i = 1 THEN d
    ELSE LET c == Reached(d, segs, i - 1)
         IN IF c = Nil THEN Nil
            ELSE IF SelfSegment(segs[i - 1]) THEN c
            ELSE IF HasChild(c, segs[i - 1]) /\ IsDir(Child(c, segs[i - 1]))
                 THEN Child(c, segs[i - 1])
                 ELSE Nil

\* Some segment names no child of the Container reached so far.
MissingSegment(d, segs) ==
    \E i \in 1..Len(segs) :
        /\ Reached(d, segs, i) # Nil
        /\ ~SelfSegment(segs[i])
        /\ ~HasChild(Reached(d, segs, i), segs[i])

\* Some segment that more path follows names a child that is no Container.
IntoLeaf(d, segs) ==
    \E i \in 1..(Len(segs) - 1) :
        /\ Reached(d, segs, i) # Nil
        /\ ~SelfSegment(segs[i])
        /\ HasChild(Reached(d, segs, i), segs[i])
        /\ ~IsDir(Child(Reached(d, segs, i), segs[i]))

\* The children of some Container that come after a child of the same name.
LaterDuplicates ==
    { n \in Nodes : \E d \in Dirs : \E i \in 1..NumChildren(d) : \E j \in 1..(i - 1) :
                        Children(d)[i] = n /\ Name(Children(d)[j]) = Name(n) }

\* Node n and everything below it.
RECURSIVE Under(_)
Under(n) == {n} \cup UNION { Under(tree[n].files[i]) : i \in 1..Len(tree[n].files) }

\* The later duplicates and everything below them.
Shadowed == UNION { Under(n) : n \in LaterDuplicates }

HasDotDot(segs) == \E i \in 1..Len(segs) : segs[i] = <<".", ".">>

\* The path ends with a separator that follows a non-empty segment.
TrailingSlash(s) == Len(s) >= 2 /\ s[Len(s)] = "/" /\ s[Len(s) - 1] # "/"

----------------------------------------------------------------------------
(* Properties. *)

\* C1 (as stated): in a run of Readdir(K) calls, K > 0, that starts with the
\* cursor at 0 on a Container with N > 0 children, call number ceil(N/K)
\* returns the last N mod K children (K of them when K divides N) together
\* with io.EOF.
C1_FinalPageCarriesEOF ==
    (Paged /\ op.page >= 1 /\ NumChildren(op.node) > 0
        /\ op.page = CeilDiv(NumChildren(op.node), op.count))
    => /\ res.err = EOF
       /\ Len(res.r) = IF NumChildren(op.node) % op.count = 0
                       THEN op.count
                       ELSE NumChildren(op.node) % op.count

\* C1 (amended): in a run of Readdir(K) calls, K > 0, that starts with the
\* cursor at 0 on a Container with N children, call number j returns children
\* (j-1)K+1 .. min(jK, N) in insertion order, so the first ceil(N/K) calls
\* partition the children and every later call returns none; a call carries
\* io.EOF exactly when fewer than K children were left for it (jK > N): the
\* last non-empty page carries it when K does not divide N, and when K divides
\* N it arrives with the first empty page.
C1_PaginationLaw ==
    (Paged /\ op.page >= 1)
    => LET N == NumChildren(op.node)
           K == op.count
           j == op.page
       IN /\ res.r = Slice(Children(op.node), (j - 1) * K + 1, j * K)
          /\ (res.r # <<>>) <=> (j <= CeilDiv(N, K))
          /\ (res.err = EOF) <=> (j * K > N)
          /\ res.err \in {Nil, EOF}
          /\ position[op.node] = Min(j * K, N)

\* A run reaches the page that ends exactly at the last child: K divides N.
C1_Witness ==
    /\ Paged /\ op.page = 2 /\ op.count = 1 /\ NumChildren(op.node) = 2
    /\ res.r # <<>> /\ res.err = Nil

\* C2: Open of a path that ends with "/" after a non-empty segment returns no
\* node and os.ErrNotExist; stated for the paths whose segment before the
\* final "/" is a name, as in "hello/", "/hello/", "foo/" and "foo/baz/".
C2_TrailingSlashNotFound ==
    (Opened /\ TrailingSlash(op.name)
        /\ ~SelfSegment(Segments(op.name)[Len(Segments(op.name)) - 1]))
    => NotFound

\* C3 (as stated): an Open that returns a Leaf, followed by reading it to
\* end-of-data, yields the Leaf's whole content.
C3_RoundTripAnyState ==
    (op.kind = "ReadFrom" /\ op.fresh) => res.data = tree[op.node].content

\* C3 (amended): an Open that returns a Leaf, followed by reading it to
\* end-of-data, yields the content from the Leaf's read position on, without
\* error: the whole content when the read position is 0 (a Leaf not read or
\* sought since construction or since its last Close).
C3_RoundTripFromCursor ==
    (op.kind = "ReadFrom" /\ op.fresh)
    => /\ res.data = Suffix(tree[op.node].content, op.before)
       /\ res.err = Nil
       /\ (op.before = 0 => res.data = tree[op.node].content)

\* A Leaf is opened and read to the end after an earlier read moved its cursor.
C3_Witness ==
    /\ op.kind = "ReadFrom" /\ op.fresh
    /\ op.before = 1 /\ res.data = <<"y">>

\* C4: every Open of the path on the root returns the node the first such
\* Open returned, which is a node of the tree as constructed (an externally
\* supplied one included) whatever was read, listed, sought or closed in
\* between.
C4_IdentitySharing ==
    (Opened /\ op.node = Root /\ op.name = path /\ held # Nil)
    => /\ res.file = held
       /\ res.err = Nil
       /\ res.file \in DOMAIN tree

\* The path is opened again and returns the node whose cursor an earlier
\* reference moved.
C4_Witness ==
    /\ Opened /\ op.node = Root /\ op.name = path /\ res.file = held /\ held # Root
    /\ \/ held \in Dirs /\ position[held] > 0
       \/ held \in Files /\ offset[held] > 0

\* An externally supplied node is returned as it was inserted.
C4_WitnessOther ==
    Opened /\ op.node = Root /\ res.file = held /\ held # Nil /\ tree[held].kind = "other"

\* C5: Open("") , Open(".") and Open("/") on the root return the root and no
\* error.
C5_SelfResolution ==
    (Opened /\ op.node = Root /\ op.name \in {<<>>, <<".">>, <<"/">>})
    => res.file = Root /\ res.err = Nil

\* The root is opened by "/" after a listing moved its cursor.
C5_Witness ==
    Opened /\ op.node = Root /\ op.name = <<"/">> /\ res.file = Root /\ position[Root] > 0

\* C6: what Open(P) returned on a Container, node and error, is what
\* Open("/" + P), Open("./" + P) and Open(".//" + P) return on it.
C6_LeadingPrefix ==
    Opened
    => \A prefix \in Prefixes :
          dir_Open(op.node, prefix \o op.name) = [file |-> res.file, err |-> res.err]

\* A path of several segments resolves to a node below the Container.
C6_Witness ==
    /\ Opened /\ op.name = path /\ Len(Segments(path)) >= 2
    /\ res.file \notin {Nil, op.node} /\ res.err = Nil

\* C7: Open returns no node and os.ErrNotExist when a segment names no child
\* of the Container reached so far, when a segment that more path follows names
\* a child that is no Container, and when a segment is "..".
C7_NegativePaths ==
    (Opened /\ \/ MissingSegment(op.node, Segments(op.name))
               \/ IntoLeaf(op.node, Segments(op.name))
               \/ HasDotDot(Segments(op.name)))
    => NotFound

\* A path descends into a Leaf.
C7_Witness ==
    /\ Opened /\ IntoLeaf(op.node, Segments(op.name))
    /\ ~MissingSegment(op.node, Segments(op.name))
    /\ Len(Segments(op.name)[Len(Segments(op.name))]) > 0
    /\ NotFound

\* C8: Readdir(0) on a Container returns all its children in insertion order
\* and no error, and leaves the cursor where it was.
C8_ListAll ==
    (Listed /\ op.count = 0)
    => /\ res.r = Children(op.node)
       /\ res.err = Nil
       /\ position[op.node] = op.before

\* Everything is listed while a paged listing is under way.
C8_Witness ==
    /\ Listed /\ op.count = 0 /\ op.before > 0 /\ op.before < NumChildren(op.node)
    /\ Len(res.r) = 3

\* C9: when a run of Readdir(K) calls, K > 0, from cursor 0 gets io.EOF, the
\* pages it returned, concatenated in call order, are what Readdir(0) returns.
C9_FullListingEquivalence ==
    (Paged /\ op.page >= 1 /\ res.err = EOF)
    => op.pages = dir_Readdir(op.node, 0, position[op.node]).r

\* A run of several pages ends.
C9_Witness ==
    /\ Paged /\ op.page = 2 /\ res.err = EOF /\ Len(op.pages) = 3 /\ Len(res.r) = 1

\* C10: Readdir(K), K > 0, on a Container whose cursor is at the end of its
\* children returns no entries and io.EOF and leaves the cursor at the end.
C10_IdempotentExhaustion ==
    (Paged /\ op.before = NumChildren(op.node))
    => /\ res.r = <<>>
       /\ res.err = EOF
       /\ position[op.node] = NumChildren(op.node)

\* An exhausted Container is listed again and again.
C10_Witness ==
    /\ Paged /\ op.before = NumChildren(op.node) /\ NumChildren(op.node) > 0
    /\ op.page = CeilDiv(NumChildren(op.node), op.count) + 2
    /\ res.err = EOF

\* A Container without children is exhausted at its first call.
C10_WitnessEmpty ==
    Paged /\ NumChildren(op.node) = 0 /\ op.page = 1 /\ res.err = EOF /\ res.r = <<>>

\* C11: Close on a Container returns no error and leaves its cursor at 0,
\* wherever the cursor was and also right after another Close; the
\* Readdir(K), K > 0, that follows it returns the first min(K, N) children.
C11_CloseRearms ==
    /\ (op.kind = "Close" /\ op.node \in Dirs)
       => position[op.node] = 0 /\ res.err = Nil
    /\ (Paged /\ op.closedFrom >= 0)
       => /\ op.before = 0
          /\ res.r = Slice(Children(op.node), 1, op.count)
          /\ Len(res.r) = Min(op.count, NumChildren(op.node))

\* An exhausted Container is closed and listed again from its first child.
C11_Witness ==
    /\ Paged /\ op.closedFrom = NumChildren(op.node) /\ NumChildren(op.node) = 3
    /\ Len(res.r) = 2 /\ res.r[1] = Children(op.node)[1]

\* A Container is closed twice in a row.
C11_WitnessTwice ==
    op.kind = "Close" /\ op.node \in Dirs /\ op.closedFrom = 0 /\ NumChildren(op.node) > 0

\* C12: when the Stat of the child at index j fails during a listing, the
\* listing returns the entries it collected before that child in this call
\* (Readdir(0): the children before j; Readdir(K), K > 0: the children from
\* the cursor up to j - 1) together with that child's error, also when j is
\* the first child looked at (an empty result and the error, no panic).
C12_PartialResultWithError ==
    /\ (Listed /\ op.count = 0 /\ FirstFailing(op.node, 1) > 0)
       => LET j == FirstFailing(op.node, 1)
          IN /\ res.r = SubSeq(Children(op.node), 1, j - 1)
             /\ res.err = StatErr(Children(op.node)[j])
    /\ (Paged /\ FirstFailing(op.node, op.before + 1) > 0
             /\ FirstFailing(op.node, op.before + 1) <= op.before + op.count)
       => LET j == FirstFailing(op.node, op.before + 1)
          IN /\ res.r = SubSeq(Children(op.node), op.before + 1, j - 1)
             /\ res.err = StatErr(Children(op.node)[j])

\* Readdir(0) stops at a failing last child with the two entries before it.
C12_Witness ==
    /\ Listed /\ op.count = 0 /\ FirstFailing(op.node, 1) = 3
    /\ Len(res.r) = 2 /\ res.err = StatErr(Children(op.node)[3])

\* A page that starts past the first child stops at the failing child.
C12_WitnessPaged ==
    /\ Paged /\ op.before = 1 /\ op.count = 2 /\ FirstFailing(op.node, 2) = 3
    /\ Len(res.r) = 1 /\ res.err = StatErr(Children(op.node)[3])

\* The failing child is the first one: nothing is returned but its error.
C12_WitnessFirst ==
    /\ Listed /\ FirstFailing(op.node, 1) = 1
    /\ res.r = <<>> /\ res.err = StatErr(Children(op.node)[1])

\* C13: Readdir on a Leaf, with any count, and Read or Seek on a Container
\* return an error that is neither os.ErrNotExist nor io.EOF, return no
\* entries, no bytes and no offset, and leave every read cursor and every
\* iteration cursor as it was.
C13_WrongKind ==
    [][WrongKindCall'
       => /\ res'.err \notin {Nil, ErrNotExist, EOF, Panic}
          /\ res'.r = <<>> /\ res'.data = <<>> /\ res'.n = 0
          /\ position' = position
          /\ offset' = offset]_vars

\* A Leaf whose read cursor has moved is listed with a negative count while
\* a Container's iteration cursor stands past its first child.
C13_Witness ==
    /\ op.kind = "Readdir" /\ op.node \in Files /\ op.count = -1
    /\ res.err = ErrNotDir
    /\ offset[op.node] > 0
    /\ \E d \in Dirs : position[d] > 0

\* A Container whose iteration cursor has moved is read from.
C13_WitnessRead ==
    /\ op.kind = "Read" /\ op.node \in Dirs /\ op.count > 0
    /\ res.err = ErrNotRegular
    /\ position[op.node] > 0

\* A Container whose iteration cursor has moved is sought in.
C13_WitnessSeek ==
    /\ op.kind = "Seek" /\ op.node \in Dirs /\ op.whence = 2
    /\ res.err = ErrNotRegular
    /\ position[op.node] > 0

\* C14 (as stated): the size a Leaf's os.FileInfo reports is the number of
\* unread bytes as of the moment Stat returned it, whatever was read since.
C14_SizeAsOfStat ==
    (op.kind = "Size" /\ op.node \in Files) => res.n = op.stat.size

\* C14 (amended): the size a Leaf's os.FileInfo reports is the number of
\* bytes unread at the moment Size is called, len(C) minus the read offset
\* and 0 when the offset is at or past the end, whenever Stat returned it;
\* it is len(C) right after Close; a Container's size is 0.  Size moves no
\* cursor.
C14_SizeIsLive ==
    /\ (op.kind = "Size" /\ op.node \in Files)
       => /\ offset[op.node] = op.before
          /\ res.n = IF op.before >= Len(tree[op.node].content) THEN 0
                     ELSE Len(tree[op.node].content) - op.before
          /\ op.closedFrom >= 0 => res.n = Len(tree[op.node].content)
    /\ (op.kind = "Size" /\ op.node \in Dirs) => res.n = 0

\* Stat, then a read, then Size: the size is the one after the read.
C14_Witness ==
    /\ op.kind = "Size" /\ op.node \in Files
    /\ op.stat.size = 2 /\ op.before = 1 /\ res.n = 1

\* Size right after the Close of a file that had been read to its end.
C14_WitnessClosed ==
    /\ op.kind = "Size" /\ op.node \in Files
    /\ op.closedFrom = 2 /\ res.n = 2

\* Size of a file sought past its end.
C14_WitnessPastEnd ==
    /\ op.kind = "Size" /\ op.node \in Files
    /\ op.before > Len(tree[op.node].content) /\ res.n = 0

\* C15: every Readdir(K), K > 0, moves the iteration cursor on by exactly the
\* number of entries it returns, whether it fills the page, runs out of
\* children (io.EOF) or stops at a child whose Stat fails; when at least K
\* children are left, exactly K included, and no Stat among them fails, it
\* returns K entries and neither an error nor io.EOF.
C15_CursorAdvance ==
    Paged
    => /\ position[op.node] - op.before = Len(res.r)
       /\ res.r = SubSeq(Children(op.node), op.before + 1, position[op.node])
       /\ (/\ NumChildren(op.node) - op.before >= op.count
           /\ \A j \in (op.before + 1)..(op.before + op.count) :
                  ~StatFails(Children(op.node)[j]))
          => Len(res.r) = op.count /\ res.err = Nil

\* Exactly K children are left: a full page without io.EOF.
C15_Witness ==
    /\ Paged /\ op.count = 2 /\ op.before = NumChildren(op.node) - 2
    /\ op.before > 0
    /\ Len(res.r) = 2 /\ res.err = Nil /\ position[op.node] = NumChildren(op.node)

\* Fewer than K children are left: a short page with io.EOF.
C15_WitnessShort ==
    /\ Paged /\ op.count = 2 /\ op.before = NumChildren(op.node) - 1
    /\ Len(res.r) = 1 /\ res.err = EOF /\ position[op.node] = op.before + 1

\* The second child of the page cannot be Stat-ed: the cursor moves by one.
C15_WitnessError ==
    /\ Paged /\ op.count = 2 /\ FirstFailing(op.node, op.before + 1) = op.before + 2
    /\ Len(res.r) = 1 /\ res.err \notin {Nil, EOF} /\ position[op.node] = op.before + 1

\* C16: in every reachable state the iteration cursor of every Container
\* with N children is between 0 and N, after any sequence of Readdir calls
\* with any count (larger than N, zero and negative included), Close and Open.
C16_CursorBound ==
    \A d \in Dirs : 0 <= position[d] /\ position[d] <= NumChildren(d)

\* A page larger than what is left has just been asked of a Container whose
\* cursor already stood at its end.
C16_Witness ==
    /\ Paged /\ op.count > NumChildren(op.node) /\ NumChildren(op.node) > 0
    /\ op.before = NumChildren(op.node)
    /\ res.err = EOF /\ position[op.node] = NumChildren(op.node)

\* The same on a Container without children.
C16_WitnessEmpty ==
    /\ Paged /\ NumChildren(op.node) = 0 /\ res.err = EOF /\ position[op.node] = 0
    /\ op.page >= 2

\* C17: when two callers hold the same Container, each from its own Open of
\* the path, and call Readdir(K), K > 0, in any order without a Close, the
\* pages handed out since the cursor stood at 0, put one after the other in
\* the order of the calls, are the children up to the cursor, each once and
\* in insertion order; every page starts where the previous call, by
\* whichever caller, stopped.
C17_SharedCursor ==
    (Paged /\ op.caller # Nil)
    => /\ op.run.seen = SubSeq(Children(op.node), 1, position[op.node])
       /\ res.r = SubSeq(Children(op.node), op.before + 1, position[op.node])
       /\ Len(op.run.seen) = op.before + Len(res.r)

\* Both callers have listed, the second continued after the first, and
\* together they were given every child of a three-child Container.
C17_Witness ==
    /\ Paged /\ op.caller = "b" /\ op.run.callers = Callers
    /\ op.before > 0 /\ Len(res.r) > 0
    /\ NumChildren(op.node) = 3 /\ op.run.seen = Children(op.node)

\* The same with the callers in the other order.
C17_WitnessOther ==
    /\ Paged /\ op.caller = "a" /\ op.run.callers = Callers
    /\ op.before > 0 /\ Len(res.r) > 0
    /\ op.run.seen = Children(op.node)

\* C18: Close on a Leaf leaves its read offset at 0 wherever reads and seeks
\* had put it, the end of the data and beyond included, returns nil and does
\* not panic; a Close right after a Close does the same; reading the Leaf to
\* its end right after a Close yields its whole content.
C18_CloseRewinds ==
    /\ (op.kind = "Close" /\ op.node \in Files)
       => offset[op.node] = 0 /\ res.err = Nil
    /\ (op.kind = "ReadFrom" /\ op.closedFrom >= 0)
       => /\ op.before = 0
          /\ res.data = tree[op.node].content
          /\ res.err = Nil

\* A file read to its end is closed and then read to its end again.
C18_Witness ==
    /\ op.kind = "ReadFrom" /\ op.closedFrom = Len(tree[op.node].content)
    /\ Len(tree[op.node].content) = 2
    /\ res.data = tree[op.node].content

\* A file is closed with its offset beyond the end of its content.
C18_WitnessPastEnd ==
    /\ op.kind = "Close" /\ op.node \in Files
    /\ op.before > Len(tree[op.node].content) /\ offset[op.node] = 0

\* A file is closed twice in a row.
C18_WitnessTwice ==
    /\ op.kind = "Close" /\ op.node \in Files /\ op.closedFrom = 0
    /\ Len(tree[op.node].content) > 0

\* C19: when a Container holds several children of one name, Open of that
\* name returns the earliest of them, Leaf or Container; no path from a node
\* that is itself reachable returns a later one or anything below it; when
\* the earliest is a Leaf and more path follows, the result is
\* os.ErrNotExist and not what a later Container of that name holds.
C19_FirstMatchWins ==
    (Opened /\ op.node \notin Shadowed)
    => /\ res.file \notin Shadowed
       /\ (~HasSep(op.name) /\ ~SelfSegment(op.name) /\ HasChild(op.node, op.name))
          => res.file = Child(op.node, op.name) /\ res.err = Nil
       /\ IntoLeaf(op.node, Segments(op.name)) => NotFound

\* The name whose earliest child is a Leaf and whose later one a Container.
C19_Witness ==
    /\ Opened /\ op.node = Root /\ op.name = <<"a">>
    /\ Child(Root, op.name) \in Files
    /\ \E n \in LaterDuplicates : Name(n) = op.name /\ n \in Dirs
    /\ res.file = Child(Root, op.name)

\* The name whose earliest child is a Container.
C19_WitnessDir ==
    /\ Opened /\ op.node = Root /\ op.name = <<"a", "a">>
    /\ \E n \in LaterDuplicates : Name(n) = op.name
    /\ res.file \in Dirs /\ res.file = Child(Root, op.name)

\* The path continues below the Leaf; the later Container has such a child.
C19_WitnessBelow ==
    /\ Opened /\ op.node = Root /\ op.name = <<"a", "/", "a">>
    /\ \E n \in LaterDuplicates : n \in Dirs /\ HasChild(n, <<"a">>)
    /\ NotFound

\* C20: Open with any path string and Readdir with any count, zero,
\* positive, larger than the number of children and negative, return a
\* result or an error value in every reachable state and never panic.
C20_NoPanic ==
    (op.kind \in {"Open", "Readdir"}) => res.err # Panic

\* C21: Open, whether it finds a node or not, changes no read cursor and no
\* iteration cursor; no call changes the children of a Container, their
\* names or order, or the content of a Leaf; a call changes at most the read
\* cursor of the Leaf it is made on (Read, Seek, Close) or the iteration
\* cursor of the Container it is made on (Readdir, Close).
C21_Frame ==
    [][/\ tree' = tree
       /\ op'.kind = "Open" => position' = position /\ offset' = offset
       /\ \A d \in Dirs :
              position'[d] # position[d]
              => op'.node = d /\ op'.kind \in {"Readdir", "Close"}
       /\ \A f \in Files :
              offset'[f] # offset[f]
              => op'.node = f /\ op'.kind \in {"Read", "ReadFrom", "Seek", "Close"}
       /\ DOMAIN position' = DOMAIN position
       /\ DOMAIN offset' = DOMAIN offset]_vars

\* An Open has just returned a Leaf whose read cursor an earlier read had
\* moved, in a Container whose iteration cursor an earlier listing had moved:
\* both cursors stand where they stood.
C21_Witness ==
    /\ Opened /\ res.err = Nil /\ res.file \in Files
    /\ offset[res.file] > 0
    /\ position[op.node] > 0

\* An Open has just failed while cursors stand away from 0.
C21_WitnessFailed ==
    /\ Opened /\ NotFound
    /\ \E f \in Files : offset[f] > 0
    /\ \E d \in Dirs : position[d] > 0

====
